---- MODULE Spec2Model ----
(***************************************************************************)
(* A model of the .msg parsing pipeline of this repository:                *)
(*   - the container walker parse_email / parse_msg                        *)
(*     (src/Parser_final_0501.py),                                         *)
(*   - the body normalizer format_email_body and the thread splitter       *)
(*     (src/parser_emailthread.py, src/parser.py),                         *)
(*   - the structured field parser parse_analysis_field                    *)
(*     (src/Parser_final_0501.py),                                         *)
(*   - the format extractors extract_pdf_text, extract_docx_text,          *)
(*     extract_pptx_text and extract_excel_text                            *)
(*     (src/Parser_final_0501.py).                                         *)
(* Strings are sequences of one-character strings.                         *)
(***************************************************************************)
EXTENDS Integers, Sequences, FiniteSets, TLC

VARIABLES
    file,       \* walker: the argument of parse_email (the top-level file)
    stack,      \* walker: the active parse_msg invocations, outermost first
    temps,      \* walker: temporary files and directories that exist on disk
    outcome,    \* walker: what the top-level parse_email call did
    budget,     \* walker: attachments the container tree may still hold
    hist,       \* walker: what happened so far (faults, aborted loops)
    raw,        \* body text: the raw body read from the message
    formatted,  \* body text: what format_email_body returned for it
    result_body,\* body text: the "body" value of the result of parse_email
    tpc,        \* body text: position in parse_email of parser_emailthread.py
    data,       \* field parser: the argument of parse_analysis_field
    parsed,     \* field parser: the dictionary it returned
    fpc,        \* field parser: position in parse_analysis_field
    document,   \* extractors: the file that an extractor is given
    texts,      \* extractors: the list of unit texts collected so far
    unit,       \* extractors: the number of units the loop has been through
    combined,   \* extractors: what the extractor did, and the text it returned
    other       \* two calls: the walker variables of the call that is not running

walkVars == <<file, stack, temps, outcome, budget, hist>>
textVars == <<raw, formatted, result_body, tpc>>
fieldVars == <<data, parsed, fpc>>
extractVars == <<document, texts, unit, combined>>
pairVars == <<other>>
vars == <<walkVars, textVars, fieldVars, extractVars, pairVars>>

----------------------------------------------------------------------------
(* Bounds of the model of the walker.                                      *)

\* Attachments in the whole container tree of a non-cyclic input.
MaxAttachments == 2

\* Nesting depth at which the interpreter refuses one more parse_msg frame
\* (Python's recursion limit, scaled down; RecursionError is an Exception).
StackLimit == 27

\* Environment faults (a failing open, read, write, mkdtemp or remove that the
\* input does not determine) injected in one top-level call.
MaxEnvFaults == 1

\* The depth bound the specification asks the walker to enforce (4.1 step 5).
MAX_DEPTH == 25

----------------------------------------------------------------------------
(* Inputs.                                                                 *)

\* An attachment: its filename (stem and extension) and what its payload is:
\*   "valid"   the extractor (or att.save) succeeds on it,
\*   "corrupt" the library cannot open it (zero bytes, truncated, not of the
\*             format): the extractor (or att.save) raises on it,
\*   "none"    att.data is None, so tmpf.write(att.data) raises TypeError;
\* and, for an embedded container, the number of files that att.save writes
\* (paths is one path, or a list of paths).
Att(stem, ext, payload) ==
    [stem |-> stem, ext |-> ext, data |-> payload, files |-> 1]

\* The attachment, when att.save returns a list of n paths.
SavedAs(att, n) == [att EXCEPT !.files = n]

AttachmentPool ==
    { Att("a", ".pdf", "valid"),  Att("a", ".pdf", "corrupt"), Att("a", ".pdf", "none"),
      Att("b", ".docx", "valid"), Att("c", ".pptx", "corrupt"),
      Att("d", ".xls", "valid"),  Att("e", ".msg", "valid"),
      Att("e", ".msg", "corrupt"), Att("f", ".txt", "valid"),
      Att("A", ".PDF", "valid"),  Att("g", ".msg", "valid"),
      Att("", "", "valid"),       SavedAs(Att("h", ".msg", "valid"), 2) }

\* The attachment of a container that embeds itself.
LoopAtt == Att("loop", ".msg", "valid")

RECURSIVE SeqsUpTo(_, _)
SeqsUpTo(S, n) ==
    IF n = 0 THEN { <<>> }
    ELSE LET shorter == SeqsUpTo(S, n - 1)
         IN  shorter \cup { Append(s, x) : s \in { t \in shorter : Len(t) = n - 1 }, x \in S }

\* The attachments of the containers given to two interleaved calls: both
\* calls meet the same filenames.
PairPool ==
    { Att("a", ".pdf", "valid"), Att("a", ".pdf", "corrupt"), Att("e", ".msg", "valid") }

\* The attachment lists a container opened at this point may hold.
\*   cyclic "loop":     the container embeds itself, and nothing else;
\*   cyclic "loop_pdf": the container embeds itself, followed by a pdf;
\*   two calls:         any list over the pair pool within the remaining budget;
\*   otherwise any list over the pool within the remaining budget.
AttachmentLists ==
    CASE file.cyclic = "loop"     -> { <<LoopAtt>> }
      [] file.cyclic = "loop_pdf" -> { <<LoopAtt, Att("a", ".pdf", "valid")>> }
      [] other.call # 0           -> SeqsUpTo(PairPool, budget)
      [] OTHER                    -> SeqsUpTo(AttachmentPool, budget)

Files ==
    [ ext : {".msg", ".MSG", ".txt"},       \* extension of file_path
      container : BOOLEAN,                  \* the bytes are a recognizable container
      cyclic : {"no", "loop", "loop_pdf"} ]

----------------------------------------------------------------------------
(* The body normalizer and the thread splitter: the functions.             *)

\* Longest raw body enumerated character by character.
MaxBodyLen == 5

\* Most pieces a raw body assembled from ThreadPieces is made of.
MaxPieces == 3

BodyAlphabet == {"a", " ", "\t", "\n", "\r", "\f"}

\* What \s matches and str.strip() removes, among the characters that occur.
Spaces == {" ", "\t", "\n", "\r", "\f"}

thread_delimiter ==
    << "-", "-", "-", "-", "-", "O", "r", "i", "g", "i", "n", "a", "l", " ",
       "M", "e", "s", "s", "a", "g", "e", "-", "-", "-", "-", "-" >>

ThreadPieces ==
    { <<"H", "i", "\n">>,
      thread_delimiter,
      <<"\n", "O", "l", "d", "e", "r", " ", "t", "e", "x", "t">>,
      <<" ", "\r", "\n">>,
      <<"-">>,
      << "O", "r", "i", "g", "i", "n", "a", "l", " ",
         "M", "e", "s", "s", "a", "g", "e", "-", "-", "-", "-", "-" >> }

RECURSIVE Concat(_)
Concat(ss) == IF ss = <<>> THEN <<>> ELSE Head(ss) \o Concat(Tail(ss))

\* The bodies the specification gives as examples of normalization.
ExampleCRLF == <<"a", "\r", "\n", "\r", "\n", "b">>
ExampleBlanks == <<"a", " ", " ", " ", "b">>
ExampleBlankLines == <<"a", "\n", " ", "\n", "\t", "\n", "\n", "b">>

\* The body the specification gives as the example of a thread.
ExampleThread ==
    <<"H", "i", "\n">> \o thread_delimiter
        \o <<"\n", "O", "l", "d", "e", "r", " ", "t", "e", "x", "t">>

\* The raw bodies of at most len characters, or made of at most n pieces.
RawBodies(len, n) ==
    SeqsUpTo(BodyAlphabet, len)
        \cup { Concat(ps) : ps \in SeqsUpTo(ThreadPieces, n) }
        \cup { ExampleCRLF, ExampleBlanks, ExampleBlankLines }

Drop(s, n) == SubSeq(s, n + 1, Len(s))

\* body.replace('\r\n', '\n')
RECURSIVE ReplaceCRLF(_)
ReplaceCRLF(s) ==
    IF s = <<>> THEN <<>>
    ELSE IF Len(s) >= 2 /\ s[1] = "\r" /\ s[2] = "\n"
         THEN <<"\n">> \o ReplaceCRLF(Drop(s, 2))
         ELSE <<s[1]>> \o ReplaceCRLF(Drop(s, 1))

\* body.replace('\r', '\n')
ReplaceCR(s) == [i \in 1 .. Len(s) |-> IF s[i] = "\r" THEN "\n" ELSE s[i]]

\* The length of the longest prefix of s made of characters of C.
RECURSIVE RunLen(_, _)
RunLen(s, C) ==
    IF s # <<>> /\ s[1] \in C THEN 1 + RunLen(Drop(s, 1), C) ELSE 0

\* What [ \t] matches.
Blanks == {" ", "\t"}

\* re.sub(r'[ \t]+', ' ', body)
RECURSIVE CollapseBlanks(_)
CollapseBlanks(s) ==
    IF s = <<>> THEN <<>>
    ELSE IF s[1] \in Blanks
         THEN <<" ">> \o CollapseBlanks(Drop(s, RunLen(s, Blanks)))
         ELSE <<s[1]>> \o CollapseBlanks(Drop(s, 1))

\* re.sub(r'\n\s*?\n', '\n\n', body): the match ends at the first line feed
\* that follows.
RECURSIVE CollapseNewlinesLazy(_)
CollapseNewlinesLazy(s) ==
    IF s = <<>> THEN <<>>
    ELSE LET run == RunLen(Drop(s, 1), Spaces)
             lfs == { j \in 2 .. 1 + run : s[j] = "\n" }
         IN  IF s[1] = "\n" /\ lfs # {}
             THEN LET first == CHOOSE j \in lfs : \A k \in lfs : j <= k
                  IN  <<"\n", "\n">> \o CollapseNewlinesLazy(Drop(s, first))
             ELSE <<s[1]>> \o CollapseNewlinesLazy(Drop(s, 1))

\* re.sub(r'\n\s*\n', '\n\n', body): at a line feed, \s* takes the whole run
\* of whitespace after it and gives back down to the last line feed of the run;
\* the match is replaced and the scan goes on behind it.
RECURSIVE CollapseNewlines(_)
CollapseNewlines(s) ==
    IF s = <<>> THEN <<>>
    ELSE LET run == RunLen(Drop(s, 1), Spaces)
             lfs == { j \in 2 .. 1 + run : s[j] = "\n" }
         IN  IF s[1] = "\n" /\ lfs # {}
             THEN LET last == CHOOSE j \in lfs : \A k \in lfs : k <= j
                  IN  <<"\n", "\n">> \o CollapseNewlines(Drop(s, last))
             ELSE <<s[1]>> \o CollapseNewlines(Drop(s, 1))

Reverse(s) == [i \in 1 .. Len(s) |-> s[Len(s) + 1 - i]]

\* str.strip()
Strip(s) ==
    LET lead == RunLen(s, Spaces)
        rest == Drop(s, lead)
        trail == RunLen(Reverse(rest), Spaces)
    IN  SubSeq(rest, 1, Len(rest) - trail)

\* format_email_body with the lone carriage returns replaced last.
format_email_body_late_cr(body) ==
    Strip(ReplaceCR(CollapseNewlines(CollapseBlanks(ReplaceCRLF(body)))))

format_email_body(body) ==
    Strip(CollapseNewlines(CollapseBlanks(ReplaceCR(ReplaceCRLF(body)))))

\* s starts with d.
StartsWith(s, d) == Len(s) >= Len(d) /\ SubSeq(s, 1, Len(d)) = d

\* thread_delimiter in formatted_body
Contains(s, d) == \E i \in 0 .. Len(s) - Len(d) : StartsWith(Drop(s, i), d)

\* str.split(d): the pieces between the leftmost non-overlapping occurrences.
RECURSIVE SplitAcc(_, _, _)
SplitAcc(s, d, piece) ==
    IF s = <<>> THEN << piece >>
    ELSE IF StartsWith(s, d)
         THEN << piece >> \o SplitAcc(Drop(s, Len(d)), d, <<>>)
         ELSE SplitAcc(Drop(s, 1), d, Append(piece, s[1]))

\* str.split(d, 1): split at the first occurrence only.
RECURSIVE SplitFirst(_, _)
SplitFirst(s, d) ==
    IF s = <<>> THEN << <<>> >>
    ELSE IF StartsWith(s, d)
         THEN << <<>>, Drop(s, Len(d)) >>
         ELSE LET r == SplitFirst(Drop(s, 1), d)
              IN  << <<s[1]>> \o r[1] >> \o Tail(r)

Split(s, d) == SplitAcc(s, d, <<>>)

\* [part.strip() for part in parts if part.strip()]
RECURSIVE StripNonEmpty(_)
StripNonEmpty(parts) ==
    IF parts = <<>> THEN <<>>
    ELSE LET p == Strip(Head(parts))
         IN  (IF p # <<>> THEN << p >> ELSE <<>>) \o StripNonEmpty(Tail(parts))

\* The thread check of parse_email: a list of parts when the delimiter occurs,
\* the formatted body itself otherwise.
SplitThread(body) ==
    IF Contains(body, thread_delimiter)
    THEN [form |-> "thread", parts |-> StripNonEmpty(Split(body, thread_delimiter))]
    ELSE [form |-> "single", text |-> body]

----------------------------------------------------------------------------
(* Messages: what extract_msg.Message exposes of a container.              *)

\* Python values of the types that the properties of a message have.
None == [type |-> "NoneType"]
Str(s) == [type |-> "str", chars |-> s]
PyInt(n) == [type |-> "int", value |-> n]
DateTime(y, mo, d, h, mi, sec, us, aware, offset) ==
    [ type |-> "datetime", year |-> y, month |-> mo, day |-> d,
      hour |-> h, minute |-> mi, second |-> sec, microsecond |-> us,
      aware |-> aware, utcoffset |-> offset ]     \* minutes east of UTC

\* bool(v) of a string or None: "x or y" takes y when x is None or "".
Truthy(v) == v.type = "str" /\ v.chars # <<>>

DigitChars == <<"0", "1", "2", "3", "4", "5", "6", "7", "8", "9">>

\* "%0<w>d" % n
RECURSIVE Pad(_, _)
Pad(n, w) ==
    IF w = 0 THEN <<>> ELSE Pad(n \div 10, w - 1) \o <<DigitChars[(n % 10) + 1]>>

\* The "+HH:MM" of an aware datetime.
UtcOffset(d) ==
    IF ~d.aware THEN <<>>
    ELSE LET m == IF d.utcoffset < 0 THEN 0 - d.utcoffset ELSE d.utcoffset
         IN  <<IF d.utcoffset < 0 THEN "-" ELSE "+">>
                 \o Pad(m \div 60, 2) \o <<":">> \o Pad(m % 60, 2)

\* datetime.isoformat(sep): YYYY-MM-DD<sep>HH:MM:SS[.ffffff][+HH:MM]
DateTimeText(d, sep) ==
    Pad(d.year, 4) \o <<"-">> \o Pad(d.month, 2) \o <<"-">> \o Pad(d.day, 2)
        \o <<sep>>
        \o Pad(d.hour, 2) \o <<":">> \o Pad(d.minute, 2) \o <<":">> \o Pad(d.second, 2)
        \o (IF d.microsecond # 0 THEN <<".">> \o Pad(d.microsecond, 6) ELSE <<>>)
        \o UtcOffset(d)

isoformat(d) == DateTimeText(d, "T")

\* str(n) of an integer that is not negative.
RECURSIVE Decimal(_)
Decimal(n) ==
    IF n < 10 THEN <<DigitChars[n + 1]>>
    ELSE Decimal(n \div 10) \o <<DigitChars[(n % 10) + 1]>>

\* str(v)
PyStr(v) ==
    CASE v.type = "str"      -> v.chars
      [] v.type = "NoneType" -> <<"N", "o", "n", "e">>
      [] v.type = "datetime" -> DateTimeText(v, " ")
      [] v.type = "int"      -> Decimal(v.value)

\* metadata["Date"] = str(date_val), whatever date_val is.
NormalizeDateStr(date_val) == Str(PyStr(date_val))

\* Date normalization: isoformat() of a datetime, str() of anything else.
NormalizeDate(date_val) ==
    IF date_val.type = "datetime"
    THEN Str(isoformat(date_val))
    ELSE Str(PyStr(date_val))

\* The metadata dictionary of parse_msg.
MetadataOf(msg) ==
    [ From |-> msg.sender, To |-> msg.to, Cc |-> msg.cc, Bcc |-> Str(<<>>),
      Date |-> NormalizeDate(msg.date) ]

\* raw_body = msg.body or getattr(msg, "htmlBody", "") or ""
RawBodyOf(msg) ==
    IF Truthy(msg.body) THEN msg.body
    ELSE IF Truthy(msg.htmlBody) THEN msg.htmlBody
    ELSE Str(<<>>)

\* body = format_email_body(raw_body) if raw_body else ""
BodyOf(msg) ==
    LET raw_body == RawBodyOf(msg)
    IN  IF Truthy(raw_body) THEN Str(format_email_body(raw_body.chars)) ELSE Str(<<>>)

Message(sender, to, cc, date, body, htmlBody) ==
    [ sender |-> sender, to |-> to, cc |-> cc, date |-> date,
      body |-> body, htmlBody |-> htmlBody ]

Ann == Str(<<"a", "n", "n", "@", "x">>)
Bob == Str(<<"b", "o", "b", "@", "y">>)
Markup == Str(<<"<", "p", ">", "h", "i", " ", " ", "<", "/", "p", ">", "\r", "\n">>)
DateHeader == Str(<<"F", "r", "i", ",", " ", "5", " ", "J", "a", "n">>)

\* Every header, a naive timestamp, a plain body and a markup body.
PlainMessage ==
    Message(Ann, Bob, Ann, DateTime(2024, 1, 5, 9, 30, 0, 0, FALSE, 0),
            Str(ExampleCRLF), Markup)

\* An aware timestamp with microseconds, a markup body only.
MarkupMessage ==
    Message(Ann, None, None, DateTime(1999, 12, 31, 23, 59, 59, 500, TRUE, 330),
            None, Markup)

\* A date that is not a timestamp, a plain body that quotes an older message.
ThreadMessage == Message(Ann, Bob, None, DateHeader, Str(ExampleThread), None)

\* No header at all, no timestamp, no body of either kind.
EmptyMessage == Message(None, None, None, None, None, None)

\* An aware timestamp west of UTC, empty bodies of both kinds.
BlankMessage ==
    Message(None, Bob, Str(<<>>), DateTime(2024, 2, 29, 0, 0, 7, 0, TRUE, 0 - 480),
            Str(<<>>), Str(<<>>))

\* A plain body of blank lines, which the normalizer collapses.
BlankLinesMessage ==
    Message(Ann, Bob, Bob, DateTime(2031, 10, 9, 8, 7, 6, 123456, FALSE, 0),
            Str(ExampleBlankLines), None)

\* The messages that occur, by the name a Message object is referred to.
MessagePool ==
    [ plain |-> PlainMessage, markup |-> MarkupMessage, thread |-> ThreadMessage,
      empty |-> EmptyMessage, blank |-> BlankMessage,
      blank_lines |-> BlankLinesMessage ]

\* The metadata and the body that parse_msg reads from each message of the
\* pool (a table, so that they are computed once per message).
ReadOf ==
    [ m \in DOMAIN MessagePool |->
        [metadata |-> MetadataOf(MessagePool[m]), body |-> BodyOf(MessagePool[m])] ]

\* The message that an embedded .msg attachment holds; a container that
\* embeds itself holds the top-level message again.
EmbeddedMessage(att) ==
    CASE att.stem = "e" -> "markup"
      [] att.stem = "g" -> "thread"
      [] OTHER          -> "empty"

\* The message in the p-th of the files that att.save wrote.
SavedMessage(att, p) == IF p <= 1 THEN EmbeddedMessage(att) ELSE "blank"

----------------------------------------------------------------------------
(* Helpers of the walker.                                                  *)

\* str.lower() on the extensions that occur.
Lower(ext) ==
    CASE ext = ".MSG" -> ".msg"
      [] ext = ".PDF" -> ".pdf"
      [] OTHER -> ext

\* The branch an attachment's filename selects when it is compared as it is.
KindOfCaseSensitive(att) ==
    LET e == att.ext
    IN  CASE e = ".pdf"  -> "pdf"
          [] e = ".docx" -> "docx"
          [] e = ".pptx" -> "pptx"
          [] e \in {".xlsx", ".xls"} -> "xlsx"
          [] e = ".msg"  -> "msg"
          [] OTHER -> "skip"

\* The branch of the if/elif chain an attachment's filename selects.
KindOf(att) ==
    LET e == Lower(att.ext)
    IN  CASE e = ".pdf"  -> "pdf"
          [] e = ".docx" -> "docx"
          [] e = ".pptx" -> "pptx"
          [] e \in {".xlsx", ".xls"} -> "xlsx"
          [] e = ".msg"  -> "msg"
          [] OTHER -> "skip"

DocKinds == {"pdf", "docx", "pptx", "xlsx"}

\* pdf_list.append(...) in every branch: the list of the first branch copied
\* into the others.
ListOfFirstBranch(k) == "pdf"

\* The list that the branch of kind k appends to: pdf_list, docx_list,
\* pptx_list, xlsx_list.
ListOf(k) == k

Filename(att) == <<att.stem, att.ext>>

\* What the extractor of a kind returns for a payload it can read.
ExtractText(att) == <<"text of", att.stem, att.ext>>

Depth == Len(stack)
Top == stack[Depth]
SetTop(f) == [stack EXCEPT ![Depth] = f]

\* The position of the current attachment of the innermost invocation in the
\* container tree; it names the temporary resource made for it.
AttPath(f) == Append(f.path, f.i)
CurAtt(f) == f.atts[f.i]

\* The p-th of the files that att.save wrote for the attachment at position
\* at: the first one is named by the position alone, the later ones are kept
\* apart from it by a position below 1 behind it.
SavedPath(at, p) == IF p <= 1 THEN at ELSE Append(at, 1 - p)

NewFrame(path) ==
    [ path |-> path, pc |-> "open", atts |-> <<>>, i |-> 0, p |-> 0,
      msg |-> "", metadata |-> None, body |-> None,
      lists |-> [k \in DocKinds |-> <<>>], nested_list |-> <<>> ]

Running == outcome.status = "running"
Done == outcome.status \in {"returned", "raised"}

\* The attachments of an abandoned invocation that its loop never reached.
Unreached(f) == { Append(f.path, j) : j \in (f.i + 1) .. Len(f.atts) }

\* nested_list.insert(0, nested_data)
NestedInsertFront(nested_list, nested_data) == <<nested_data>> \o nested_list

\* nested_list.append(nested_data)
NestedAppend(nested_list, nested_data) == Append(nested_list, nested_data)

\* x_list.insert(0, {"filename": filename, "content": text})
DocInsertFront(x_list, att) ==
    <<[filename |-> Filename(att), content |-> ExtractText(att)]>> \o x_list

\* x_list.append({"filename": filename, "content": text})
DocAppend(x_list, att) ==
    Append(x_list, [filename |-> Filename(att), content |-> ExtractText(att)])

\* The messages that the file being opened may hold.
MessagesAt ==
    IF Depth > 1 THEN { SavedMessage(CurAtt(stack[Depth - 1]), stack[Depth - 1].p) }
    ELSE IF file.cyclic # "no" THEN { "empty" }
    ELSE IF other.call # 0 THEN { IF other.call = 2 THEN "plain" ELSE "thread" }
    ELSE DOMAIN MessagePool

\* The attachments that the container tree below message m, which is being
\* opened, may hold: the tree of the plain message in a file named ".msg" has
\* MaxAttachments attachments, the tree of any other top-level message has
\* one attachment fewer.
Allowance(m) ==
    IF /\ Depth = 1 /\ file.cyclic = "no" /\ other.call = 0
       /\ (m # "plain" \/ file.ext # ".msg")
    THEN budget - 1 ELSE budget

\* What the file being opened may hold: its attachments and its message.
Contents ==
    { c \in AttachmentLists \X MessagesAt :
        file.cyclic = "no" => Len(c[1]) <= Allowance(c[2]) }

\* An environment fault may still be injected; into the parse of a file that
\* embeds itself one fault is injected at most.
EnvFault ==
    /\ hist.env < MaxEnvFaults
    /\ file.cyclic # "no" => hist.env = 0

\* A handler that names the exceptions it expects:
\* "except (OSError, ValueError, TypeError)".
HandlerMissesRecursion(exc) == exc # "RecursionError"

\* "except Exception" of the nested-msg branch: it catches every exception
\* the walker meets, the interpreter's RecursionError among them.
NestedHandlerCatches(exc) == TRUE

\* The invocation has a container handle: msg = extract_msg.Message(file_path)
\* returned, and the finally clause with msg.close() has not run yet.
HandleOpen(f) == f.pc # "open"

\* A handler that names the exceptions it expects, "except ValueError": an
\* error of msg.close() passes it.
HandlerMissesCloseError(exc) == exc # "CloseError"

\* "try: msg.close() except: pass": the bare except catches every exception.
CloseHandlerCatches(exc) == TRUE

\* An exception leaves the innermost invocation, t being the temporary
\* resources it leaves behind.  The caller is either parse_email (the
\* exception reaches the caller of the top-level call) or a parse_msg waiting
\* in the try block of its nested-msg branch: its except clause catches the
\* exception and falls through to the finally clause; an exception it does
\* not catch runs the finally clause of every waiting invocation and reaches
\* the caller of the top-level call.  The finally clause of every invocation
\* left closes its handle.
Unwind(exc, what, env, t) ==
    LET caught == Depth > 1 /\ NestedHandlerCatches(exc)
        left == IF caught THEN { Depth } ELSE 1 .. Depth
    IN  /\ hist' = [hist EXCEPT
                      !.faults = @ \cup { <<AttPath(Top), what>> },
                      !.env = @ + env,
                      !.unreached = @ \cup UNION { Unreached(stack[j]) : j \in left },
                      !.dropped = @ \cup { stack[j].path : j \in left },
                      !.closed = @ + Cardinality({ j \in left : HandleOpen(stack[j]) })]
        /\ IF caught
           THEN /\ stack' = [SubSeq(stack, 1, Depth - 1) EXCEPT
                                ![Depth - 1].pc = "msg_rmtree"]
                /\ temps' = t
                /\ UNCHANGED outcome
           ELSE /\ stack' = <<>>
                /\ temps' = t \ { AttPath(stack[j]) : j \in 1 .. Depth - 1 }
                /\ outcome' = [status |-> "raised", exc |-> exc, value |-> <<>>]

\* An exception is raised in the try block of the nested-msg branch of the
\* innermost invocation: caught there, or else the finally clause removes
\* the directory and the exception leaves the invocation.
RaiseInNestedTry(exc, what) ==
    IF NestedHandlerCatches(exc)
    THEN /\ stack' = SetTop([Top EXCEPT !.pc = "msg_rmtree"])
         /\ hist' = [hist EXCEPT !.faults = @ \cup { <<AttPath(Top), what>> }]
         /\ UNCHANGED <<temps, outcome>>
    ELSE Unwind(exc, what, 0, temps \ { AttPath(Top) })

\* The result with every kind's list in it, extracted or not.
ResultAllKinds(f) ==
    [ metadata |-> f.metadata, body |-> f.body,
      attachments |-> f.lists,
      nested_emails |-> f.nested_list ]

\* The dictionary parse_msg returns.
Result(f) ==
    [ metadata |-> f.metadata, body |-> f.body,
      attachments |-> [k \in { d \in DocKinds : f.lists[d] # <<>> } |-> f.lists[k]],
      nested_emails |-> f.nested_list ]

\* Nothing has happened yet in a top-level call: no fault, no loop abandoned,
\* no invocation dropped, env environment faults injected, no container
\* handle opened and none closed.
NoHistory(env) ==
    [ faults |-> {}, unreached |-> {}, dropped |-> {}, env |-> env,
      opened |-> 0, closed |-> 0 ]

\* The walker's variables while another component is being exercised, and
\* the other components' variables while the walker is.
WalkIdle ==
    /\ file = [ext |-> ".msg", container |-> TRUE, cyclic |-> "no"]
    /\ stack = <<>>
    /\ temps = {}
    /\ outcome = [status |-> "off", exc |-> "", value |-> <<>>]
    /\ budget = 0
    /\ hist = NoHistory(0)

TextIdle ==
    /\ raw = <<>>
    /\ formatted = <<>>
    /\ result_body = [form |-> "none"]
    /\ tpc = "off"

FieldIdle ==
    /\ data = [kind |-> "missing", text |-> <<>>]
    /\ parsed = <<>>
    /\ fpc = "off"

ExtractIdle ==
    /\ document = [kind |-> "none", opens |-> FALSE, units |-> <<>>]
    /\ texts = <<>>
    /\ unit = 0
    /\ combined = [status |-> "off", text |-> <<>>]

\* One top-level call only: there is no other call.
PairIdle ==
    other = [ call |-> 0,
              file |-> [ext |-> ".msg", container |-> TRUE, cyclic |-> "no"],
              stack |-> <<>>,
              outcome |-> [status |-> "off", exc |-> "", value |-> <<>>],
              budget |-> 0,
              hist |-> NoHistory(0) ]

\* The temporary names of a call that would be those of any other call: the
\* position of the attachment alone.
SharedRoot == <<>>

\* tempfile.NamedTemporaryFile and tempfile.mkdtemp create a name that does
\* not exist yet: the names of the second of two calls are kept apart from
\* those of the first by a position 0 in front.
CallRoot == IF other.call = 1 THEN <<0>> ELSE <<>>

----------------------------------------------------------------------------
(* The walker.                                                             *)

WalkInit ==
    /\ file \in Files
    /\ stack = <<>>
    /\ temps = {}
    /\ outcome = [status |-> "idle", exc |-> "", value |-> <<>>]
    /\ budget = MaxAttachments
    /\ hist = NoHistory(0)
    /\ TextIdle /\ FieldIdle /\ ExtractIdle /\ PairIdle

\* parse_email: dispatch on the extension of file_path.
ParseEmail ==
    /\ outcome.status = "idle"
    /\ IF Lower(file.ext) = ".msg"
       THEN /\ stack' = <<NewFrame(CallRoot)>>
            /\ outcome' = [outcome EXCEPT !.status = "running"]
       ELSE /\ stack' = stack
            /\ outcome' = [status |-> "raised", exc |-> "Unsupported", value |-> <<>>]
    /\ UNCHANGED <<file, temps, budget, hist>>
    /\ UNCHANGED <<textVars, fieldVars, extractVars, pairVars>>

\* msg = extract_msg.Message(file_path), before the try block.
OpenMessage ==
    /\ Running /\ Top.pc = "open"
    /\ \/ /\ (Depth > 1 \/ file.container)
          /\ \E c \in Contents :
                /\ stack' = SetTop([Top EXCEPT !.pc = "meta", !.atts = c[1], !.msg = c[2]])
                /\ budget' = IF file.cyclic = "no" THEN Allowance(c[2]) - Len(c[1])
                                                  ELSE budget
          /\ hist' = [hist EXCEPT !.opened = @ + 1]
          /\ UNCHANGED <<temps, outcome>>
       \/ /\ Depth = 1 /\ ~file.container
          /\ Unwind("Unsupported", "open", 0, temps)
          /\ UNCHANGED budget
       \/ /\ (Depth > 1 \/ file.container) /\ EnvFault
          /\ Unwind("OpenError", "open", 1, temps)
          /\ UNCHANGED budget
    /\ UNCHANGED file
    /\ UNCHANGED <<textVars, fieldVars, extractVars, pairVars>>

\* Metadata, date normalization and body, inside try ... finally msg.close().
ReadMessage ==
    /\ Running /\ Top.pc = "meta"
    /\ \/ /\ stack' = SetTop([Top EXCEPT !.pc = "loop",
                                          !.metadata = ReadOf[Top.msg].metadata,
                                          !.body = ReadOf[Top.msg].body])
          /\ UNCHANGED <<temps, outcome, hist>>
       \/ /\ EnvFault
          /\ Unwind("ReadError", "meta", 1, temps)
    /\ UNCHANGED <<file, budget>>
    /\ UNCHANGED <<textVars, fieldVars, extractVars, pairVars>>

\* for att in attachments: ... the if/elif chain on the filename.
NextAttachment ==
    /\ Running /\ Top.pc = "loop"
    /\ IF Top.i = Len(Top.atts)
       THEN stack' = SetTop([Top EXCEPT !.pc = "assemble"])
       ELSE LET f == [Top EXCEPT !.i = @ + 1]
                k == KindOf(CurAtt(f))
            IN  stack' = SetTop([f EXCEPT !.pc =
                            CASE k \in DocKinds -> "doc_write"
                              [] k = "msg"      -> "msg_mkdtemp"
                              [] OTHER          -> "loop"])
    /\ UNCHANGED <<file, temps, outcome, budget, hist>>
    /\ UNCHANGED <<textVars, fieldVars, extractVars, pairVars>>

\* with tempfile.NamedTemporaryFile(delete=False, ...) as tmpf:
\*     tmpf.write(att.data); tmp = tmpf.name        (before the try block)
DocWrite ==
    /\ Running /\ Top.pc = "doc_write"
    /\ \/ /\ CurAtt(Top).data # "none"
          /\ temps' = temps \cup { AttPath(Top) }
          /\ stack' = SetTop([Top EXCEPT !.pc = "doc_extract"])
          /\ UNCHANGED <<outcome, hist>>
       \/ \* the write raises: the file was created with delete=False and stays
          /\ CurAtt(Top).data = "none" \/ EnvFault
          /\ Unwind("WriteError", "write", IF CurAtt(Top).data = "none" THEN 0 ELSE 1,
                    temps \cup { AttPath(Top) })
    /\ UNCHANGED <<file, budget>>
    /\ UNCHANGED <<textVars, fieldVars, extractVars, pairVars>>

\* try: text = extract_x_text(tmp); x_list.append(...)
\* except Exception: logger.error(...)
DocExtract ==
    /\ Running /\ Top.pc = "doc_extract"
    /\ LET att == CurAtt(Top)
           k == KindOf(att)
       IN  IF att.data = "valid"
           THEN /\ stack' = SetTop([Top EXCEPT !.pc = "doc_remove",
                        !.lists[ListOf(k)] = DocAppend(@, att)])
                /\ hist' = hist
           ELSE /\ stack' = SetTop([Top EXCEPT !.pc = "doc_remove"])
                /\ hist' = [hist EXCEPT !.faults = @ \cup { <<AttPath(Top), "extract">> }]
    /\ UNCHANGED <<file, temps, outcome, budget>>
    /\ UNCHANGED <<textVars, fieldVars, extractVars, pairVars>>

\* finally: os.remove(tmp)
DocRemove ==
    /\ Running /\ Top.pc = "doc_remove"
    /\ \/ /\ temps' = temps \ { AttPath(Top) }
          /\ stack' = SetTop([Top EXCEPT !.pc = "loop"])
          /\ UNCHANGED <<outcome, hist>>
       \/ /\ EnvFault
          /\ Unwind("RemoveError", "remove", 1, temps)
    /\ UNCHANGED <<file, budget>>
    /\ UNCHANGED <<textVars, fieldVars, extractVars, pairVars>>

\* tmpdir = tempfile.mkdtemp()                     (before the try block)
MsgMkdtemp ==
    /\ Running /\ Top.pc = "msg_mkdtemp"
    /\ \/ /\ temps' = temps \cup { AttPath(Top) }
          /\ stack' = SetTop([Top EXCEPT !.pc = "msg_save"])
          /\ UNCHANGED <<outcome, hist>>
       \/ /\ EnvFault
          /\ Unwind("MkdtempError", "mkdtemp", 1, temps)
    /\ UNCHANGED <<file, budget>>
    /\ UNCHANGED <<textVars, fieldVars, extractVars, pairVars>>

\* try: save_type, paths = att.save(customPath=tmpdir, extractEmbedded=True)
\* except Exception: logger.error(...)
MsgSave ==
    /\ Running /\ Top.pc = "msg_save"
    /\ IF CurAtt(Top).data = "valid"
       THEN /\ stack' = SetTop([Top EXCEPT !.pc = "msg_call"])
            /\ UNCHANGED <<temps, outcome, hist>>
       ELSE RaiseInNestedTry("SaveError", "save")
    /\ UNCHANGED <<file, budget>>
    /\ UNCHANGED <<textVars, fieldVars, extractVars, pairVars>>

\* for p in paths: nested_data = parse_msg(p)      (inside the try block)
\* p counts the paths that the loop has taken.  No depth is passed: the only limit is the interpreter's, whose
\* RecursionError the except clause of this branch catches.
MsgCall ==
    /\ Running /\ Top.pc = "msg_call"
    /\ IF Depth < StackLimit
       THEN /\ stack' = Append(SetTop([Top EXCEPT !.pc = "msg_wait", !.p = @ + 1]),
                               NewFrame(SavedPath(AttPath(Top), Top.p + 1)))
            /\ UNCHANGED <<temps, outcome, hist>>
       ELSE RaiseInNestedTry("RecursionError", "recursion")
    /\ UNCHANGED <<file, budget>>
    /\ UNCHANGED <<textVars, fieldVars, extractVars, pairVars>>

\* finally: shutil.rmtree(tmpdir, ignore_errors=True)
MsgRmtree ==
    /\ Running /\ Top.pc = "msg_rmtree"
    /\ temps' = temps \ { AttPath(Top) }
    /\ stack' = SetTop([Top EXCEPT !.pc = "loop", !.p = 0])
    /\ UNCHANGED <<file, outcome, budget, hist>>
    /\ UNCHANGED <<textVars, fieldVars, extractVars, pairVars>>

\* return result: the caller of the top-level call gets the dictionary; a
\* nested invocation hands it to nested_list.append in its caller.
HandOver ==
    IF Depth = 1
    THEN /\ stack' = <<>>
         /\ outcome' = [status |-> "returned", exc |-> "", value |-> Result(Top)]
    ELSE /\ stack' = [SubSeq(stack, 1, Depth - 1) EXCEPT
                         ![Depth - 1].nested_list = NestedAppend(@, Result(Top)),
                         ![Depth - 1].pc =
                            IF stack[Depth - 1].p < CurAtt(stack[Depth - 1]).files
                            THEN "msg_call" ELSE "msg_rmtree"]
         /\ UNCHANGED outcome

\* The result dictionary is assembled and returned;
\* finally: try: msg.close() except: pass.
ReturnResult ==
    /\ Running /\ Top.pc = "assemble"
    /\ \/ /\ HandOver
          /\ hist' = [hist EXCEPT !.closed = @ + 1]
          /\ UNCHANGED temps
       \/ \* msg.close() raises
          /\ EnvFault
          /\ IF CloseHandlerCatches("CloseError")
             THEN /\ HandOver
                  /\ hist' = [hist EXCEPT !.closed = @ + 1, !.env = @ + 1,
                                          !.faults = @ \cup { <<AttPath(Top), "close">> }]
                  /\ UNCHANGED temps
             ELSE Unwind("CloseError", "close", 1, temps)
    /\ UNCHANGED <<file, budget>>
    /\ UNCHANGED <<textVars, fieldVars, extractVars, pairVars>>

WalkNext ==
    \/ ParseEmail
    \/ OpenMessage
    \/ ReadMessage
    \/ NextAttachment
    \/ DocWrite
    \/ DocExtract
    \/ DocRemove
    \/ MsgMkdtemp
    \/ MsgSave
    \/ MsgCall
    \/ MsgRmtree
    \/ ReturnResult

Spec == WalkInit /\ [][WalkNext]_vars

\* The walker on the inputs that embed themselves.  The interpreter runs the
\* one thread of a parse until the call returns or raises: weak fairness of
\* the next step.
CyclicInit ==
    /\ WalkInit
    /\ file.cyclic # "no"

CyclicSpec == CyclicInit /\ [][WalkNext]_vars /\ WF_vars(WalkNext)

----------------------------------------------------------------------------
(* Two top-level calls of parse_email that run interleaved.                *)

\* Attachments in the container tree of each of the two inputs.
PairAttachments == 1

\* The first call is given any file that does not embed itself, and one
\* environment fault may be injected into it; the second call is given a
\* container, and no environment fault is injected into it.
PairInit ==
    /\ file \in { f \in Files : f.cyclic = "no" }
    /\ stack = <<>>
    /\ temps = {}
    /\ outcome = [status |-> "idle", exc |-> "", value |-> <<>>]
    /\ budget = PairAttachments
    /\ hist = NoHistory(MaxEnvFaults - 1)
    /\ other = [ call |-> 2,
                 file |-> [ext |-> ".msg", container |-> TRUE, cyclic |-> "no"],
                 stack |-> <<>>,
                 outcome |-> [status |-> "idle", exc |-> "", value |-> <<>>],
                 budget |-> PairAttachments,
                 hist |-> NoHistory(MaxEnvFaults) ]
    /\ TextIdle /\ FieldIdle /\ ExtractIdle

\* The interpreter suspends the running call and resumes the other one, which
\* has steps left.  The locals of each call (its frames, its lists, its
\* result) are its own; the temporary files and directories are on the one
\* disk.
Switch ==
    /\ other.call # 0
    /\ other.outcome.status \in {"idle", "running"}
    /\ file' = other.file
    /\ stack' = other.stack
    /\ outcome' = other.outcome
    /\ budget' = other.budget
    /\ hist' = other.hist
    /\ other' = [ call |-> 3 - other.call, file |-> file, stack |-> stack,
                  outcome |-> outcome, budget |-> budget, hist |-> hist ]
    /\ UNCHANGED temps
    /\ UNCHANGED <<textVars, fieldVars, extractVars>>

PairNext ==
    \/ WalkNext
    \/ Switch

PairSpec == PairInit /\ [][PairNext]_vars

----------------------------------------------------------------------------
(* The body pipeline of parse_email (src/parser_emailthread.py).           *)

TextInit ==
    /\ raw \in RawBodies(MaxBodyLen, MaxPieces)
    /\ formatted = <<>>
    /\ result_body = [form |-> "none"]
    /\ tpc = "body"
    /\ WalkIdle /\ FieldIdle /\ ExtractIdle /\ PairIdle

\* formatted_body = format_email_body(body) if body else ""
FormatBody ==
    /\ tpc = "body"
    /\ formatted' = IF raw # <<>> THEN format_email_body(raw) ELSE <<>>
    /\ tpc' = "thread"
    /\ UNCHANGED <<raw, result_body>>
    /\ UNCHANGED <<walkVars, fieldVars, extractVars, pairVars>>

\* The thread check, and the return of {"metadata": ..., "body": result_body}.
DetectThread ==
    /\ tpc = "thread"
    /\ result_body' = SplitThread(formatted)
    /\ tpc' = "done"
    /\ UNCHANGED <<raw, formatted>>
    /\ UNCHANGED <<walkVars, fieldVars, extractVars, pairVars>>

TextNext ==
    \/ FormatBody
    \/ DetectThread

TextSpec == TextInit /\ [][TextNext]_vars

----------------------------------------------------------------------------
(* Properties of the body normalizer and the thread splitter (TextSpec).   *)

Formatted == tpc # "body"
Returned == tpc = "done"

\* C8: the body normalizer is idempotent: normalizing the normalized body
\* again gives the normalized body.
C8_NormalizerIdempotent ==
    Formatted => format_email_body(formatted) = formatted

\* The normalizer has acted on a body it had to change in every respect.
C8_Witness ==
    /\ Formatted
    /\ raw = <<" ", "\r", "\n", "\t", "a">>
    /\ formatted = <<"a">>

\* A run of whitespace of s that holds three line feeds.
ThreeLineFeeds(s) ==
    \E i, j, k \in 1 .. Len(s) :
        /\ i < j /\ j < k
        /\ s[i] = "\n" /\ s[j] = "\n" /\ s[k] = "\n"
        /\ \A m \in i .. k : s[m] \in Spaces

\* C9: the normalized body holds no carriage return, no two adjacent spaces
\* or tabs, no two blank lines in a row (no three line feeds separated
\* by whitespace only), and no leading or trailing whitespace;
\* "a\r\n\r\nb" gives "a\n\nb" and "a   b" gives "a b".
C9_NormalizedShape ==
    Formatted =>
        /\ \A i \in 1 .. Len(formatted) : formatted[i] # "\r"
        /\ \A i \in 1 .. Len(formatted) - 1 :
              ~(formatted[i] \in Blanks /\ formatted[i + 1] \in Blanks)
        /\ ~ThreeLineFeeds(formatted)
        /\ formatted # <<>> =>
              formatted[1] \notin Spaces /\ formatted[Len(formatted)] \notin Spaces
        /\ raw = ExampleCRLF => formatted = <<"a", "\n", "\n", "b">>
        /\ raw = ExampleBlanks => formatted = <<"a", " ", "b">>

\* Blank lines that hold spaces and tabs have been collapsed to one blank line.
C9_Witness ==
    /\ Formatted
    /\ raw = ExampleBlankLines
    /\ formatted = <<"a", "\n", "\n", "b">>

\* The pieces joined by the delimiter.
RECURSIVE Join(_, _)
Join(ps, d) ==
    IF Len(ps) = 1 THEN ps[1] ELSE ps[1] \o d \o Join(Tail(ps), d)

\* The first position of s at which d occurs (0: none).
FirstAt(s, d) ==
    IF Contains(s, d)
    THEN CHOOSE i \in 1 .. Len(s) :
            /\ StartsWith(Drop(s, i - 1), d)
            /\ \A j \in 1 .. i - 1 : ~StartsWith(Drop(s, j - 1), d)
    ELSE 0

\* ps are the pieces between the occurrences of d in s, taken from the left:
\* joined by d they give s back, no occurrence of d starts inside a piece
\* that a delimiter follows, and the last piece holds none.
PiecesOf(ps, s, d) ==
    /\ Len(ps) >= 1
    /\ Join(ps, d) = s
    /\ \A i \in 1 .. Len(ps) - 1 : FirstAt(ps[i] \o d, d) = Len(ps[i]) + 1
    /\ ~Contains(ps[Len(ps)], d)

\* qs holds the trimmed pieces of ps that are not empty, in the order of ps.
TrimmedNonEmpty(qs, ps) ==
    LET kept == { i \in 1 .. Len(ps) : Strip(ps[i]) # <<>> }
        rank(i) == Cardinality({ j \in kept : j <= i })
    IN  /\ Len(qs) = Cardinality(kept)
        /\ \A i \in kept : qs[rank(i)] = Strip(ps[i])

\* C7: when the normalized body contains the delimiter, the parts are the
\* pieces between the occurrences of the delimiter, each trimmed, the empty
\* ones dropped, in order; otherwise the body is returned unchanged as a
\* single string.  The example body gives ["Hi", "Older text"].
C7_ThreadSplit ==
    Returned =>
        /\ Contains(formatted, thread_delimiter) =>
              /\ result_body.form = "thread"
              /\ LET ps == Split(formatted, thread_delimiter)
                 IN  /\ PiecesOf(ps, formatted, thread_delimiter)
                     /\ TrimmedNonEmpty(result_body.parts, ps)
        /\ ~Contains(formatted, thread_delimiter) =>
              result_body = [form |-> "single", text |-> formatted]
        /\ raw = ExampleThread =>
              result_body.parts = << <<"H", "i">>,
                                     <<"O", "l", "d", "e", "r", " ", "t", "e", "x", "t">> >>

\* A body in which a second delimiter overlaps the first has been split at
\* the first one.
C7_Witness ==
    /\ Returned
    /\ raw = <<"H", "i", "\n">> \o thread_delimiter \o Drop(thread_delimiter, 5)
    /\ result_body.form = "thread"
    /\ result_body.parts = << <<"H", "i">>, Drop(thread_delimiter, 5) >>

\* C6: the returned body is a single string or, exactly when the normalized
\* body contains the delimiter, a sequence of strings that is not empty.
C6_BodyForms ==
    Returned =>
        /\ result_body.form \in {"single", "thread"}
        /\ result_body.form = "thread" <=> Contains(formatted, thread_delimiter)
        /\ result_body.form = "thread" => result_body.parts # <<>>

----------------------------------------------------------------------------
(* The structured field parser.                                            *)

\* Longest answer text enumerated character by character.
MaxAnswerLen == 5

AnswerAlphabet == {"1", ".", ":", "A", "a", " ", "\n"}

Digits == {"0", "1", "2", "3", "4", "5", "6", "7", "8", "9"}

UpperCase == <<"A", "B", "C", "D", "E", "F", "G", "H", "I", "J", "K", "L", "M",
               "N", "O", "P", "Q", "R", "S", "T", "U", "V", "W", "X", "Y", "Z">>
LowerCase == <<"a", "b", "c", "d", "e", "f", "g", "h", "i", "j", "k", "l", "m",
               "n", "o", "p", "q", "r", "s", "t", "u", "v", "w", "x", "y", "z">>

Range(f) == { f[i] : i \in DOMAIN f }

\* What \w matches.
WordChars == Range(UpperCase) \cup Range(LowerCase) \cup Digits \cup {"_"}

\* What [\w\s] matches.
LabelChars == WordChars \cup Spaces

\* str.lower()
LowerChar(c) ==
    IF c \in Range(UpperCase)
    THEN LowerCase[CHOOSE i \in DOMAIN UpperCase : UpperCase[i] = c]
    ELSE c
ToLower(s) == [i \in 1 .. Len(s) |-> LowerChar(s[i])]

\* str.replace(' ', '_')
SpacesToUnderscores(s) == [i \in 1 .. Len(s) |-> IF s[i] = " " THEN "_" ELSE s[i]]

\* key.lower().replace(' ', '_'), the label not trimmed.
CleanKeyUntrimmed(key) == SpacesToUnderscores(ToLower(key))

\* key.strip().lower().replace(' ', '_')
CleanKey(key) == SpacesToUnderscores(ToLower(Strip(key)))

\* The answers in the two layouts that the documentation of
\* parse_analysis_field describes: "1. Classification: ... 2. Category: ..."
\* and "Classification: ...\nCategory: ...".
ExampleNumbered ==
    <<"1", ".", " ", "C", "l", "a", "s", "s", "i", "f", "i", "c", "a",
      "t", "i", "o", "n", ":", " ", "S", "u", "s", "p", "i", "c", "i",
      "o", "u", "s", " ", "a", "c", "t", "i", "v", "i", "t", "y", " ",
      "d", "e", "t", "e", "c", "t", "e", "d", " ", "2", ".", " ", "C",
      "a", "t", "e", "g", "o", "r", "y", ":", " ", "F", "r", "o", "n",
      "t", " ", "R", "u", "n", "n", "i", "n", "g", " ", "3", ".", " ",
      "E", "x", "p", "l", "a", "n", "a", "t", "i", "o", "n", ":", " ",
      "t", "e", "x", "t", " ", "4", ".", " ", "C", "i", "t", "a", "t",
      "i", "o", "n", ":", " ", "D", "o", "c", " ", "A", ",", " ", "S",
      "e", "c", " ", "3", ".", "2">>

ExamplePlain ==
    <<"C", "l", "a", "s", "s", "i", "f", "i", "c", "a", "t", "i", "o",
      "n", ":", " ", "N", "o", "n", "e", "\n", "C", "a", "t", "e", "g",
      "o", "r", "y", ":", " ", "N", "o", "n", "e", "\n", "E", "x", "p",
      "l", "a", "n", "a", "t", "i", "o", "n", ":", " ", "n", "o", " ",
      "i", "s", "s", "u", "e", "s", "\n", "C", "i", "t", "a", "t", "i",
      "o", "n", ":", " ", "N", "o", "n", "e">>

\* A labelled line followed by a numbered unit: "Note: x\n1. a: b".
ExampleBoth ==
    <<"N", "o", "t", "e", ":", " ", "x", "\n", "1", ".", " ", "a", ":",
      " ", "b">>

\* Most units of an answer assembled from labels and values.
MaxUnits == 2

\* Labels with the keys they normalize to, and values (already trimmed).
UnitLabels ==
    { [label |-> <<"A", "a">>, key |-> <<"a", "a">>],
      [label |-> <<"b", " ", "C">>, key |-> <<"b", "_", "c">>],
      [label |-> <<"D">>, key |-> <<"d">>] }

UnitValues == { <<"x">>, <<"y", " ", "z">>, <<"1", ".", "5">> }

Units == { [label |-> l.label, key |-> l.key, value |-> v] : l \in UnitLabels, v \in UnitValues }

\* Sequences of one to MaxUnits units with pairwise different labels.
UnitLists ==
    { us \in SeqsUpTo(Units, MaxUnits) :
        /\ us # <<>>
        /\ \A i, j \in DOMAIN us : i # j => us[i].key # us[j].key }

\* Labels that differ in case, in surrounding whitespace or in blank versus
\* underscore only, and one label apart from them.
RepeatedLabels ==
    { <<"b", " ", "C">>, <<"B", "_", "c">>, <<"b", " ", "c", " ">>, <<"D">> }

\* Sequences of two to MaxUnits units whose labels may repeat.
RepeatedLists ==
    { us \in SeqsUpTo({ [label |-> l, value |-> v] : l \in RepeatedLabels,
                                                     v \in UnitValues }, MaxUnits) :
        Len(us) >= 2 }

NumberChars == <<"1", "2", "3", "4", "5", "6", "7", "8", "9">>

\* "<n>. <Label>: <value>" for the units in order, separated by one blank.
RECURSIVE NumberedText(_, _)
NumberedText(us, n) ==
    IF us = <<>> THEN <<>>
    ELSE <<NumberChars[n], ".", " ">> \o us[1].label \o <<":", " ">> \o us[1].value
            \o (IF Len(us) > 1 THEN <<" ">> ELSE <<>>) \o NumberedText(Tail(us), n + 1)

\* "<Label>: <value>" lines for the units in order, separated by line feeds.
RECURSIVE PlainText(_)
PlainText(us) ==
    IF us = <<>> THEN <<>>
    ELSE us[1].label \o <<":", " ">> \o us[1].value
            \o (IF Len(us) > 1 THEN <<"\n">> ELSE <<>>) \o PlainText(Tail(us))

ExampleAnswers ==
    { ExampleNumbered, ExamplePlain, ExampleBoth }
        \cup { NumberedText(us, 1) : us \in UnitLists }
        \cup { PlainText(us) : us \in UnitLists }
        \cup { NumberedText(us, 1) : us \in RepeatedLists }
        \cup { PlainText(us) : us \in RepeatedLists }

\* The argument of parse_analysis_field: a dictionary without "answer", or
\* with an answer that is None, a number, or a string (of at most len
\* characters, or one of the examples).
AnswerDicts(len) ==
    { [kind |-> k, text |-> <<>>] : k \in {"missing", "none", "number"} }
        \cup { [kind |-> "str", text |-> t] :
                    t \in SeqsUpTo(AnswerAlphabet, len) \cup ExampleAnswers }

\* Positions are indexes of the next character: 1 .. Len(s) + 1.

\* $ without re.MULTILINE: the end, or just before a line feed that ends s.
AtDollar(s, i) ==
    \/ i = Len(s) + 1
    \/ i = Len(s) /\ s[i] = "\n"

\* \d+\. matched at i: the position behind it, or 0.
DigitsDot(s, i) ==
    LET run == RunLen(Drop(s, i - 1), Digits)
    IN  IF run >= 1 /\ i + run <= Len(s) /\ s[i + run] = "." THEN i + run + 1 ELSE 0

\* [\w\s]*: matched at i: a label may be empty.
LabelColonStar(s, i) ==
    LET run == RunLen(Drop(s, i - 1), LabelChars)
    IN  IF i + run <= Len(s) /\ s[i + run] = ":" THEN i + run + 1 ELSE 0

\* [\w\s]+: matched at i: the position behind the colon, or 0.  The greedy
\* class takes the whole run, which a colon has to follow.
LabelColon(s, i) ==
    LET run == RunLen(Drop(s, i - 1), LabelChars)
    IN  IF run >= 1 /\ i + run <= Len(s) /\ s[i + run] = ":" THEN i + run + 1 ELSE 0

\* The group of \s*([\w\s]+): matched at i: \s* takes the leading whitespace
\* of the run, but leaves the group one character when the run is whitespace
\* only.
NumberedKey(s, i) ==
    LET run == RunLen(Drop(s, i - 1), LabelChars)
        lead == RunLen(Drop(s, i - 1), Spaces)
        from == IF lead < run THEN i + lead ELSE i + run - 1
    IN  SubSeq(s, from, i + run - 1)

\* The group of ([\w\s]+): matched at i.
PlainKey(s, i) == SubSeq(s, i, i + RunLen(Drop(s, i - 1), LabelChars) - 1)

\* (?=\n?\d+\.\s*[\w\s]+:|$) at i: the lookahead that stops only where the
\* next unit begins (the pattern of src/parse_analysis_function0501.py).
NumberedStopAtUnit(s, i) ==
    \/ LET d == DigitsDot(s, i) IN d # 0 /\ LabelColon(s, d) # 0
    \/ /\ i < Len(s) /\ s[i] = "\n"
       /\ LET d == DigitsDot(s, i + 1) IN d # 0 /\ LabelColon(s, d) # 0
    \/ AtDollar(s, i)

\* (?=\d+\.|$) at i.
NumberedStop(s, i) == DigitsDot(s, i) # 0 \/ AtDollar(s, i)

\* (?=\n[\w\s]+:|$) at i.
PlainStop(s, i) ==
    \/ i <= Len(s) /\ s[i] = "\n" /\ LabelColon(s, i + 1) # 0
    \/ AtDollar(s, i)

\* \s*(.*?)(?=stop) behind the colon, from position c: \s* takes the whole
\* run of whitespace, the group grows until the lookahead holds.
ValueStart(s, c) == c + RunLen(Drop(s, c - 1), Spaces)

NumberedValueEnd(s, c) ==
    CHOOSE e \in ValueStart(s, c) .. Len(s) + 1 :
        /\ NumberedStop(s, e)
        /\ \A j \in ValueStart(s, c) .. e - 1 : ~NumberedStop(s, j)

PlainValueEnd(s, c) ==
    CHOOSE e \in ValueStart(s, c) .. Len(s) + 1 :
        /\ PlainStop(s, e)
        /\ \A j \in ValueStart(s, c) .. e - 1 : ~PlainStop(s, j)

\* re.findall(r"\d+\.\s*([\w\s]+):\s*(.*?)(?=\d+\.|$)", answer, re.DOTALL)
\* from position i on: the (key, value) pairs of the matches, left to right.
RECURSIVE NumberedMatches(_, _)
NumberedMatches(s, i) ==
    IF i > Len(s) THEN <<>>
    ELSE LET d == DigitsDot(s, i)
             c == IF d = 0 THEN 0 ELSE LabelColon(s, d)
         IN  IF c = 0
             THEN NumberedMatches(s, i + 1)
             ELSE LET e == NumberedValueEnd(s, c)
                  IN  << <<NumberedKey(s, d), SubSeq(s, ValueStart(s, c), e - 1)>> >>
                          \o NumberedMatches(s, e)

\* re.findall(r"([\w\s]+):\s*(.*?)(?=\n[\w\s]+:|$)", answer, re.DOTALL)
RECURSIVE PlainMatches(_, _)
PlainMatches(s, i) ==
    IF i > Len(s) THEN <<>>
    ELSE LET c == LabelColon(s, i)
         IN  IF c = 0
             THEN PlainMatches(s, i + 1)
             ELSE LET e == PlainValueEnd(s, c)
                  IN  << <<PlainKey(s, i), SubSeq(s, ValueStart(s, c), e - 1)>> >>
                          \o PlainMatches(s, e)

\* parsed.setdefault(key_clean, value.strip()): a key keeps its first value.
RECURSIVE FillDictKeepFirst(_, _)
FillDictKeepFirst(parsed_so_far, matches) ==
    IF matches = <<>> THEN parsed_so_far
    ELSE LET key_clean == CleanKey(matches[1][1])
             value == Strip(matches[1][2])
             put == [k \in DOMAIN parsed_so_far \cup {key_clean} |->
                        IF k \in DOMAIN parsed_so_far THEN parsed_so_far[k] ELSE value]
         IN  FillDictKeepFirst(put, Tail(matches))

\* parsed[key_clean] = value.strip(), for the matches in order.
RECURSIVE FillDict(_, _)
FillDict(parsed_so_far, matches) ==
    IF matches = <<>> THEN parsed_so_far
    ELSE LET key_clean == CleanKey(matches[1][1])
             value == Strip(matches[1][2])
             put == [k \in DOMAIN parsed_so_far \cup {key_clean} |->
                        IF k = key_clean THEN value ELSE parsed_so_far[k]]
         IN  FillDict(put, Tail(matches))

EmptyDict == [k \in {} |-> <<>>]

\* Both layouts are tried and their fields put into one map.
ParseAnswerMerged(answer) ==
    FillDict(FillDict(EmptyDict, NumberedMatches(answer, 1)), PlainMatches(answer, 1))

\* The body of parse_analysis_field for an answer that is a string.
ParseAnswer(answer) ==
    LET numbered_matches == NumberedMatches(answer, 1)
    IN  IF numbered_matches # <<>>
        THEN FillDict(EmptyDict, numbered_matches)
        ELSE FillDict(EmptyDict, PlainMatches(answer, 1))

FieldInit ==
    /\ data \in AnswerDicts(MaxAnswerLen)
    /\ parsed = EmptyDict
    /\ fpc = "call"
    /\ WalkIdle /\ TextIdle /\ ExtractIdle /\ PairIdle

\* answer = data.get('answer'); if not isinstance(answer, str): return {}
ReturnEmpty ==
    /\ fpc = "call"
    /\ data.kind # "str"
    /\ parsed' = EmptyDict
    /\ fpc' = "returned"
    /\ UNCHANGED data
    /\ UNCHANGED <<walkVars, textVars, extractVars, pairVars>>

\* The two layouts, the numbered one first, and return parsed.
ParseLayouts ==
    /\ fpc = "call"
    /\ data.kind = "str"
    /\ parsed' = ParseAnswer(data.text)
    /\ fpc' = "returned"
    /\ UNCHANGED data
    /\ UNCHANGED <<walkVars, textVars, extractVars, pairVars>>

FieldNext ==
    \/ ReturnEmpty
    \/ ParseLayouts

FieldSpec == FieldInit /\ [][FieldNext]_vars

----------------------------------------------------------------------------
(* Properties of the structured field parser (FieldSpec).                  *)

\* A colon of t that a label character precedes.
LabelledColon(t) ==
    \E i \in 2 .. Len(t) : t[i] = ":" /\ t[i - 1] \in LabelChars

\* C10: parse_analysis_field returns, and returns the empty map for an answer
\* that is missing or not a string and for an answer text in which no colon
\* follows a label.
C10_EmptyWhenNoStructure ==
    /\ fpc \in {"off", "call", "returned"}
    /\ fpc = "returned" =>
          /\ data.kind # "str" => parsed = EmptyDict
          /\ data.kind = "str" /\ ~LabelledColon(data.text) => parsed = EmptyDict

\* An answer with colons, none of them behind a label, gave the empty map.
C10_Witness ==
    /\ fpc = "returned"
    /\ data = [kind |-> "str", text |-> <<"1", ".", ":", "a">>]
    /\ parsed = EmptyDict

\* The map that the (key, value) matches ms of one layout give on their own:
\* its keys are the normalized labels of ms, and a label's value is the trimmed
\* value of the last match that carries it.
FromMatches(p, ms) ==
    /\ DOMAIN p = { CleanKey(ms[j][1]) : j \in DOMAIN ms }
    /\ \A j \in DOMAIN ms :
          (\A l \in DOMAIN ms : l > j => CleanKey(ms[l][1]) # CleanKey(ms[j][1]))
              => p[CleanKey(ms[j][1])] = Strip(ms[j][2])

\* C11: when the numbered layout matches a unit anywhere in the answer, the
\* returned map is the map of the numbered matches alone; the map of the plain
\* matches is returned only when the numbered layout matched nothing.
C11_FirstMatchWins ==
    (fpc = "returned" /\ data.kind = "str") =>
        LET numbered == NumberedMatches(data.text, 1)
        IN  IF numbered # <<>>
            THEN FromMatches(parsed, numbered)
            ELSE FromMatches(parsed, PlainMatches(data.text, 1))

\* Both layouts match "Note: x\n1. a: b", under different labels, and the map
\* returned holds the numbered unit only.
C11_Witness ==
    /\ fpc = "returned"
    /\ data = [kind |-> "str", text |-> ExampleBoth]
    /\ NumberedMatches(data.text, 1) # <<>>
    /\ \E j \in DOMAIN PlainMatches(data.text, 1) :
          CleanKey(PlainMatches(data.text, 1)[j][1]) = <<"n", "o", "t", "e">>
    /\ parsed = (<<"a">> :> <<"b">>)

\* The map of k units: each normalized label with its whole value.
ExpectedFields(us) ==
    [k \in { us[j].key : j \in DOMAIN us } |->
        us[CHOOSE j \in DOMAIN us : us[j].key = k].value]

ExpectedNumbered ==
    (<<"c", "l", "a", "s", "s", "i", "f", "i", "c", "a", "t", "i", "o", "n">> :>
        <<"S", "u", "s", "p", "i", "c", "i", "o", "u", "s", " ", "a", "c", "t", "i", "v", "i", "t", "y", " ", "d", "e", "t", "e", "c", "t", "e", "d">>)
    @@ (<<"c", "a", "t", "e", "g", "o", "r", "y">> :> <<"F", "r", "o", "n", "t", " ", "R", "u", "n", "n", "i", "n", "g">>)
    @@ (<<"e", "x", "p", "l", "a", "n", "a", "t", "i", "o", "n">> :> <<"t", "e", "x", "t">>)
    @@ (<<"c", "i", "t", "a", "t", "i", "o", "n">> :>
        <<"D", "o", "c", " ", "A", ",", " ", "S", "e", "c", " ", "3", ".", "2">>)

ExpectedPlain ==
    (<<"c", "l", "a", "s", "s", "i", "f", "i", "c", "a", "t", "i", "o", "n">> :> <<"N", "o", "n", "e">>)
    @@ (<<"c", "a", "t", "e", "g", "o", "r", "y">> :> <<"N", "o", "n", "e">>)
    @@ (<<"e", "x", "p", "l", "a", "n", "a", "t", "i", "o", "n">> :> <<"n", "o", " ", "i", "s", "s", "u", "e", "s">>)
    @@ (<<"c", "i", "t", "a", "t", "i", "o", "n">> :> <<"N", "o", "n", "e">>)

\* C12: an answer of k numbered units "<n>. <Label>: <value>" gives a map of
\* exactly k fields, each normalized label with its whole trimmed value, and
\* the documented four-unit answer gives its four fields.
C12_NumberedUnits ==
    (fpc = "returned" /\ data.kind = "str") =>
        /\ \A us \in UnitLists :
              data.text = NumberedText(us, 1) =>
                  /\ parsed = ExpectedFields(us)
                  /\ Cardinality(DOMAIN parsed) = Len(us)
        /\ data.text = ExampleNumbered => parsed = ExpectedNumbered

\* C13: an answer of lines "<Label>: <value>" without numbering gives one
\* field per line, each normalized label with its trimmed value, and the
\* documented four-line answer gives its four fields.
C13_PlainLines ==
    (fpc = "returned" /\ data.kind = "str") =>
        /\ \A us \in UnitLists :
              data.text = PlainText(us) =>
                  /\ parsed = ExpectedFields(us)
                  /\ Cardinality(DOMAIN parsed) = Len(us)
        /\ data.text = ExamplePlain => parsed = ExpectedPlain

\* An "<integer>." begins at position i of s: digits, then a dot.
AnchorAt(s, i) ==
    \E j \in i .. Len(s) - 1 :
        /\ \A k \in i .. j : s[k] \in Digits
        /\ s[j + 1] = "."

\* The first position from p on at which an "<integer>." begins, or the
\* position behind the end of s.
Boundary(s, p) ==
    CHOOSE e \in p .. Len(s) + 1 :
        /\ e = Len(s) + 1 \/ AnchorAt(s, e)
        /\ \A j \in p .. e - 1 : ~AnchorAt(s, j)

\* The position at which the value of unit j begins in NumberedText(us, 1).
ValueAt(us, j) ==
    Len(NumberedText(SubSeq(us, 1, j), 1)) - Len(us[j].value) + 1

\* The answers of numbered units, each with its units.
NumberedAnswers == { <<NumberedText(us, 1), us>> : us \in UnitLists }

\* C21: in the numbered layout the value of every unit ends at the first
\* "<integer>." that follows the start of the value, one inside the value
\* itself included, or at the end of the text: the map returned for an answer
\* of numbered units is the map of the labels to the text up to that boundary,
\* trimmed, and no value of a map of the numbered layout holds an "<integer>.".
C21_ValueBoundary ==
    (fpc = "returned" /\ data.kind = "str") =>
        /\ \A a \in NumberedAnswers :
              data.text = a[1] =>
                  LET us == a[2]
                  IN  /\ DOMAIN parsed = { us[j].key : j \in DOMAIN us }
                      /\ \A j \in DOMAIN us :
                            LET from == ValueAt(us, j)
                            IN  parsed[us[j].key] =
                                    Strip(SubSeq(data.text, from, Boundary(data.text, from) - 1))
        /\ NumberedMatches(data.text, 1) # <<>> =>
              \A k \in DOMAIN parsed :
                  \A i \in 1 .. Len(parsed[k]) : ~AnchorAt(parsed[k], i)

\* "1. Aa: 1.5 2. D: x": the value of the first unit ended at the "1." that
\* the value itself begins with.
C21_Witness ==
    /\ fpc = "returned"
    /\ data = [kind |-> "str",
               text |-> <<"1", ".", " ", "A", "a", ":", " ", "1", ".", "5", " ",
                          "2", ".", " ", "D", ":", " ", "x">>]
    /\ parsed = (<<"a", "a">> :> <<>>) @@ (<<"d">> :> <<"x">>)

\* t has no leading and no trailing whitespace.
Trimmed(t) == t # <<>> => t[1] \notin Spaces /\ t[Len(t)] \notin Spaces

\* C22: every key of the map returned is trimmed, has no upper-case letter
\* and no space (a space of the label has become an underscore), and every
\* value is trimmed, whichever layout matched.
C22_KeysAndValuesNormalized ==
    fpc = "returned" =>
        \A k \in DOMAIN parsed :
            /\ Trimmed(k)
            /\ \A i \in 1 .. Len(k) : k[i] \notin Range(UpperCase) /\ k[i] # " "
            /\ Trimmed(parsed[k])

\* "Aa: x\nb C: y z": the plain layout matched the second label with the line
\* feed in front of it, an inner space and an upper-case letter, and the map
\* has the key "b_c".
C22_Witness ==
    /\ fpc = "returned"
    /\ data = [kind |-> "str",
               text |-> <<"A", "a", ":", " ", "x", "\n", "b", " ", "C", ":", " ",
                          "y", " ", "z">>]
    /\ NumberedMatches(data.text, 1) = <<>>
    /\ PlainMatches(data.text, 1)[2][1] = <<"\n", "b", " ", "C">>
    /\ parsed = (<<"a", "a">> :> <<"x">>) @@ (<<"b", "_", "c">> :> <<"y", " ", "z">>)

\* The matches that parse_analysis_field puts into the map for answer.
MatchesUsed(answer) ==
    LET numbered_matches == NumberedMatches(answer, 1)
    IN  IF numbered_matches # <<>> THEN numbered_matches ELSE PlainMatches(answer, 1)

\* C29: when several units of one answer have labels that normalize to the
\* same key, the map holds one entry for the key, and its value is the
\* trimmed value of the last of these units in text order.
C29_LastDuplicateWins ==
    fpc = "returned" /\ data.kind = "str" =>
        LET ms == MatchesUsed(data.text)
            key == [i \in DOMAIN ms |-> CleanKey(ms[i][1])]
        IN  /\ DOMAIN parsed = { key[i] : i \in DOMAIN ms }
            /\ \A i \in DOMAIN ms :
                  (\A j \in DOMAIN ms : j > i => key[j] # key[i])
                      => parsed[key[i]] = Strip(ms[i][2])

\* An answer returned in which two units have different labels with one key
\* and different values.
C29_Witness ==
    /\ fpc = "returned" /\ data.kind = "str"
    /\ LET ms == MatchesUsed(data.text)
       IN  \E i, j \in DOMAIN ms :
              /\ i < j
              /\ ms[i][1] # ms[j][1]
              /\ CleanKey(ms[i][1]) = CleanKey(ms[j][1])
              /\ Strip(ms[i][2]) # Strip(ms[j][2])
              /\ Cardinality(DOMAIN parsed) = 1
              /\ parsed[CleanKey(ms[j][1])] = Strip(ms[j][2])

----------------------------------------------------------------------------
(* The format extractors: extract_pdf_text, extract_docx_text,             *)
(* extract_pptx_text and extract_excel_text.                               *)

\* Most units (pages, paragraphs, shapes, rows) of a document.
MaxSubUnits == 3

\* What an extractor iterates over: the pages of a pdf with what
\* page.extract_text() returns, the paragraphs of a word document with their
\* text, the shapes of the slides of a presentation in slide order, the rows
\* of the sheets of a workbook in sheet order with their cell values; and a
\* unit that the library raises on when it is read.
Page(text) == [fault |-> FALSE, text |-> text]
Paragraph(text) == [fault |-> FALSE, text |-> Str(text)]
Shape(has_text, text) == [fault |-> FALSE, has_text |-> has_text, text |-> text]
Row(cells) == [fault |-> FALSE, cells |-> cells]
FaultyUnit == [fault |-> TRUE]

UnitPool(kind) ==
    CASE kind = "pdf" ->
            { Page(None), Page(Str(<<>>)), Page(Str(<<"p">>)),
              Page(Str(<<" ", "q", "\n">>)), Page(Str(<<"\n">>)), FaultyUnit }
      [] kind = "docx" ->
            { Paragraph(<<>>), Paragraph(<<"p">>), Paragraph(<<" ">>),
              Paragraph(<<"q", " ">>), FaultyUnit }
      [] kind = "pptx" ->
            { Shape(FALSE, None), Shape(TRUE, Str(<<>>)),
              Shape(TRUE, Str(<<" ", "s", " ">>)), Shape(TRUE, Str(<<"\t">>)),
              Shape(TRUE, Str(<<"t">>)), FaultyUnit }
      [] kind = "xlsx" ->
            { Row(<<>>), Row(<<None, None>>), Row(<<Str(<<"x">>)>>),
              Row(<<None, Str(<<"x">>), PyInt(7)>>), Row(<<Str(<<>>)>>),
              Row(<<PyInt(10), None, Str(<<" ", "y">>)>>), FaultyUnit }

\* The files an extractor is given: one that the library cannot open, and
\* the documents of at most n units.
Documents(n) ==
    { [kind |-> k, opens |-> FALSE, units |-> <<>>] : k \in DocKinds }
        \cup UNION { { [kind |-> k, opens |-> TRUE, units |-> us] :
                          us \in SeqsUpTo(UnitPool(k), n) } : k \in DocKinds }

\* sep.join(parts)
RECURSIVE StrJoin(_, _)
StrJoin(parts, sep) ==
    IF parts = <<>> THEN <<>>
    ELSE IF Len(parts) = 1 THEN parts[1]
    ELSE parts[1] \o sep \o StrJoin(Tail(parts), sep)

\* [str(cell) for cell in row]
RowStringsAllCells(cells) == [i \in 1 .. Len(cells) |-> PyStr(cells[i])]

\* row_text = [str(cell) for cell in row if cell is not None]
RECURSIVE RowStrings(_)
RowStrings(cells) ==
    IF cells = <<>> THEN <<>>
    ELSE (IF Head(cells).type # "NoneType" THEN <<PyStr(Head(cells))>> ELSE <<>>)
            \o RowStrings(Tail(cells))

\* What one pass of the loop appends to texts: nothing, or one string.
UnitLines(kind, u) ==
    CASE kind \in {"pdf", "docx"} ->
            IF Truthy(u.text) THEN <<u.text.chars>> ELSE <<>>
      [] kind = "pptx" ->
            IF u.has_text
            THEN LET text == Strip(u.text.chars)
                 IN  IF text # <<>> THEN <<text>> ELSE <<>>
            ELSE <<>>
      [] kind = "xlsx" ->
            LET row_text == RowStrings(u.cells)
            IN  IF row_text # <<>> THEN <<StrJoin(row_text, <<"\t">>)>> ELSE <<>>

ExtractInit ==
    /\ document \in Documents(MaxSubUnits)
    /\ texts = <<>>
    /\ unit = 0
    /\ combined = [status |-> "called", text |-> <<>>]
    /\ WalkIdle /\ TextIdle /\ FieldIdle /\ PairIdle

\* reader = PdfReader(pdf_path), doc = Document(docx_path),
\* prs = Presentation(pptx_path), wb = load_workbook(xlsx_path, read_only=True)
OpenDocument ==
    /\ combined.status = "called"
    /\ combined' = [combined EXCEPT !.status =
                        IF document.opens THEN "reading" ELSE "raised"]
    /\ UNCHANGED <<document, texts, unit>>
    /\ UNCHANGED <<walkVars, textVars, fieldVars, pairVars>>

\* One pass of the loop over the units.  Nothing in an extractor catches an
\* exception: one that reading a unit raises leaves the extractor.
ReadUnit ==
    /\ combined.status = "reading"
    /\ unit < Len(document.units)
    /\ unit' = unit + 1
    /\ LET u == document.units[unit + 1]
       IN  IF u.fault
           THEN /\ combined' = [combined EXCEPT !.status = "raised"]
                /\ UNCHANGED texts
           ELSE /\ texts' = texts \o UnitLines(document.kind, u)
                /\ UNCHANGED combined
    /\ UNCHANGED document
    /\ UNCHANGED <<walkVars, textVars, fieldVars, pairVars>>

\* combined = "\n".join(texts).strip(); return combined
JoinTexts ==
    /\ combined.status = "reading"
    /\ unit = Len(document.units)
    /\ combined' = [status |-> "returned", text |-> Strip(StrJoin(texts, <<"\n">>))]
    /\ UNCHANGED <<document, texts, unit>>
    /\ UNCHANGED <<walkVars, textVars, fieldVars, pairVars>>

ExtractNext ==
    \/ OpenDocument
    \/ ReadUnit
    \/ JoinTexts

ExtractSpec == ExtractInit /\ [][ExtractNext]_vars

----------------------------------------------------------------------------
(* Properties of the format extractors (ExtractSpec).                      *)

\* The units of a document that the library reads without raising.
RECURSIVE SoundUnits(_)
SoundUnits(units) ==
    IF units = <<>> THEN <<>>
    ELSE (IF Head(units).fault THEN <<>> ELSE <<Head(units)>>) \o SoundUnits(Tail(units))

\* The texts that the units us of a document of this kind contribute.
RECURSIVE LinesOf(_, _)
LinesOf(kind, us) ==
    IF us = <<>> THEN <<>> ELSE UnitLines(kind, Head(us)) \o LinesOf(kind, Tail(us))

CellString(cell) ==
    CASE cell = Str(<<"x">>) -> <<"x">>
      [] cell = Str(<<>>) -> <<>>
      [] cell = Str(<<" ", "y">>) -> <<" ", "y">>
      [] cell = PyInt(7) -> <<"7">>
      [] cell = PyInt(10) -> <<"1", "0">>

\* The cells of a row that hold a value, in order.
ValueCells(cells) == SelectSeq(cells, LAMBDA c : c # None)

\* A unit is not empty: a page or a paragraph with text, a shape with a text
\* that is not blank, a row with a cell that is not null.
NonEmptyUnit(kind, u) ==
    CASE kind \in {"pdf", "docx"} -> u.text # None /\ u.text # Str(<<>>)
      [] kind = "pptx" -> u.has_text /\ \E i \in DOMAIN u.text.chars : u.text.chars[i] \notin Spaces
      [] kind = "xlsx" -> \E i \in DOMAIN u.cells : u.cells[i] # None

\* The line of a unit that is not empty.
UnitLine(kind, u) ==
    CASE kind \in {"pdf", "docx"} -> u.text.chars
      [] kind = "pptx" -> Strip(u.text.chars)
      [] kind = "xlsx" ->
            LET vs == ValueCells(u.cells)
            IN  Join([i \in DOMAIN vs |-> CellString(vs[i])], <<"\t">>)

\* C24: an extractor returns the lines of the units of the document that are
\* not empty, in document order and nothing else, joined by line feeds and
\* the whole trimmed; a document without such a unit gives "".
C24_JoinOfNonEmptyUnits ==
    combined.status = "returned" =>
        LET us == document.units
            kept == { i \in DOMAIN us : NonEmptyUnit(document.kind, us[i]) }
            rank(i) == Cardinality({ j \in kept : j <= i })
        IN  /\ Len(texts) = Cardinality(kept)
            /\ \A i \in kept : texts[rank(i)] = UnitLine(document.kind, us[i])
            /\ combined.text =
                  (IF kept = {} THEN <<>> ELSE Strip(Join(texts, <<"\n">>)))

\* A workbook with a row of nulls, a row "x", a row with a null, "x" and 7,
\* has been rendered as two lines, the second one "x<tab>7".
C24_Witness ==
    /\ combined.status = "returned"
    /\ document.kind = "xlsx"
    /\ document.units = <<Row(<<None, None>>), Row(<<Str(<<"x">>)>>),
                          Row(<<None, Str(<<"x">>), PyInt(7)>>)>>
    /\ combined.text = <<"x", "\n", "x", "\t", "7">>

----------------------------------------------------------------------------
(* Properties of the walker (Spec, CyclicSpec).                            *)

\* An invocation of parse_msg is about to return: every message of the output
\* tree, at any level, is the Result of such a state.
Assembling == Running /\ Top.pc = "assemble"

\* The keys of the metadata mapping, as the code spells them.
HeaderKeys == {"From", "To", "Cc", "Bcc", "Date", "Subject"}

\* C14: the metadata of every message returned, at any level, has the six keys
\* and string values, and a header that the container lacks is "".
C14_MetadataComplete ==
    Assembling =>
        LET md == Result(Top).metadata
            m == MessagePool[Top.msg]
        IN  /\ DOMAIN md = HeaderKeys
            /\ \A k \in DOMAIN md : md[k].type = "str"
            /\ m.sender = None => md.From = Str(<<>>)
            /\ m.to = None => md.To = Str(<<>>)
            /\ m.cc = None => md.Cc = Str(<<>>)

\* The number that the characters i .. j of t spell, or -1.
RECURSIVE Num(_, _, _)
Num(t, i, j) ==
    IF j < i THEN 0
    ELSE IF j > Len(t) \/ t[j] \notin Digits THEN 0 - 1
    ELSE LET high == Num(t, i, j - 1)
         IN  IF high < 0 THEN 0 - 1
             ELSE 10 * high + (CHOOSE n \in 0 .. 9 : DigitChars[n + 1] = t[j])

\* t is the ISO-8601 text YYYY-MM-DDTHH:MM:SS[.ffffff][+HH:MM] of timestamp d.
Iso8601Of(t, d) ==
    LET frac == IF d.microsecond # 0 THEN 7 ELSE 0
        zone == 19 + frac
    IN  /\ Len(t) = zone + (IF d.aware THEN 6 ELSE 0)
        /\ t[5] = "-" /\ t[8] = "-" /\ t[11] = "T" /\ t[14] = ":" /\ t[17] = ":"
        /\ Num(t, 1, 4) = d.year /\ Num(t, 6, 7) = d.month /\ Num(t, 9, 10) = d.day
        /\ Num(t, 12, 13) = d.hour /\ Num(t, 15, 16) = d.minute
        /\ Num(t, 18, 19) = d.second
        /\ d.microsecond # 0 => t[20] = "." /\ Num(t, 21, 26) = d.microsecond
        /\ d.aware =>
              /\ t[zone + 1] = (IF d.utcoffset < 0 THEN "-" ELSE "+")
              /\ t[zone + 4] = ":"
              /\ 60 * Num(t, zone + 2, zone + 3) + Num(t, zone + 5, zone + 6)
                    = (IF d.utcoffset < 0 THEN 0 - d.utcoffset ELSE d.utcoffset)

\* C15: the metadata of every message returned has a date, which is a string:
\* the ISO-8601 text of the timestamp when the container gave a timestamp, and
\* otherwise the string form of the value it gave (of None: "None").
C15_DateIsString ==
    Assembling =>
        LET md == Result(Top).metadata
            d == MessagePool[Top.msg].date
        IN  /\ "Date" \in DOMAIN md
            /\ md.Date.type = "str"
            /\ d.type = "datetime" => Iso8601Of(md.Date.chars, d)
            /\ d.type = "str" => md.Date.chars = d.chars
            /\ d.type = "NoneType" => md.Date.chars = <<"N", "o", "n", "e">>

\* A nested message whose timestamp has microseconds and a UTC offset is
\* about to be returned with the date 1999-12-31T23:59:59.000500+05:30.
C15_Witness ==
    /\ Assembling /\ Depth = 2
    /\ MessagePool[Top.msg].date.type = "datetime"
    /\ Result(Top).metadata.Date =
          Str(<<"1", "9", "9", "9", "-", "1", "2", "-", "3", "1", "T",
                "2", "3", ":", "5", "9", ":", "5", "9", ".",
                "0", "0", "0", "5", "0", "0", "+", "0", "5", ":", "3", "0">>)

\* The format kind that a filename extension names, whatever its case.
KindByExtension(att) ==
    CASE att.ext \in {".pdf", ".PDF"}   -> "pdf"
      [] att.ext \in {".docx", ".DOCX"} -> "docx"
      [] att.ext \in {".pptx", ".PPTX"} -> "pptx"
      [] att.ext \in {".xlsx", ".XLSX", ".xls", ".XLS"} -> "xlsx"
      [] att.ext \in {".msg", ".MSG"}   -> "msg"
      [] OTHER -> "skip"

\* C16: in every message returned, a format-kind key is there only if an
\* attachment of that kind was extracted, and it holds at least one document.
C16_KindKeys ==
    Assembling =>
        LET r == Result(Top)
        IN  /\ DOMAIN r.attachments \subseteq DocKinds
            /\ \A k \in DOMAIN r.attachments :
                  /\ r.attachments[k] # <<>>
                  /\ \E i \in DOMAIN Top.atts :
                        /\ KindByExtension(Top.atts[i]) = k
                        /\ Top.atts[i].data = "valid"

\* A message with a pdf that failed to extract and a word document that was
\* extracted is about to be returned with the word-document key only.
C16_Witness ==
    /\ Assembling
    /\ Top.atts = <<Att("a", ".pdf", "corrupt"), Att("b", ".docx", "valid")>>
    /\ DOMAIN Result(Top).attachments = {"docx"}

\* The steps of one attachment's processing that the claims name: the write
\* to the temporary file, the extractor, att.save, the recursive parse (which
\* includes opening and reading the nested message) and the cleanup.
AttachmentFault(f) ==
    \/ f[2] \in {"write", "extract", "save", "recursion", "remove"}
    \/ f[2] \in {"open", "meta"} /\ Len(f[1]) > 1

\* C1: the top-level call raises nothing but the unsupported-container error.
C1_OnlyUnsupportedEscapes ==
    outcome.status = "raised" => outcome.exc = "Unsupported"

\* C2: when the faults of a parse are faults of attachments, the call
\* returns the message, and no loop over attachments was abandoned before it
\* reached every attachment.
C2_SiblingsSurvive ==
    (Done /\ hist.faults # {} /\ \A f \in hist.faults : AttachmentFault(f)) =>
        /\ outcome.status = "returned"
        /\ hist.unreached = {}

\* C3: parse_msg is never active at a nesting depth beyond the bound.
C3_DepthBounded == Depth <= MAX_DEPTH

\* The nesting depth of a parse result.
RECURSIVE TreeDepth(_)
TreeDepth(r) ==
    IF r.nested_emails = <<>> THEN 1
    ELSE 1 + TreeDepth(r.nested_emails[1])

\* C4: on a file that embeds itself the top-level call ends; when the file is
\* a container and the environment does not fail, it ends by returning a tree
\* whose depth is bounded.
C4_CyclicTerminates ==
    /\ [](Done /\ hist.env = 0 /\ file.container /\ Lower(file.ext) = ".msg" =>
            /\ outcome.status = "returned"
            /\ TreeDepth(outcome.value) <= StackLimit)
    /\ <>Done

\* The parse of a self-embedding container returned a tree as deep as the
\* interpreter allows, the innermost level cut off.
C4_Witness ==
    /\ file.cyclic = "loop_pdf"
    /\ outcome.status = "returned"
    /\ TreeDepth(outcome.value) = StackLimit
    /\ \E f \in hist.faults : f[2] = "recursion"

\* The steps of parse_msg between the creation of the temporary resource of
\* the current attachment and its removal.
HoldsTemp(f) ==
    f.pc \in {"doc_extract", "doc_remove", "msg_save", "msg_call", "msg_wait", "msg_rmtree"}

\* C5: unless a removal itself failed, every temporary resource that exists
\* belongs to an attachment that is being processed: none is left when the
\* walker goes on to the next sibling, returns or raises.
C5_TempsReleased ==
    (\A f \in hist.faults : f[2] # "remove") =>
        \A t \in temps :
            \E j \in 1 .. Depth : HoldsTemp(stack[j]) /\ AttPath(stack[j]) = t

\* The nested messages cs are those of the attachments of invocation f from
\* position i on, in attachment order: an embedded container whose processing
\* met no fault gives one child per file saved, in order, each with the
\* metadata and the body of its own container; one whose processing met a
\* fault gives the children parsed before the fault (when partial) or none
\* (when not partial); any other attachment gives none.
RECURSIVE NestedBlocks(_, _, _, _)
NestedBlocks(cs, f, i, partial) ==
    IF i > Len(f.atts) THEN cs = <<>>
    ELSE LET att == f.atts[i]
             at == Append(f.path, i)
             faulted == \/ \E n \in 1 .. att.files : SavedPath(at, n) \in hist.dropped
                        \/ \E fl \in hist.faults : fl[1] = at
             counts == IF KindByExtension(att) # "msg" THEN {0}
                       ELSE IF ~faulted THEN {att.files}
                       ELSE IF partial THEN 0 .. att.files - 1
                       ELSE {0}
         IN  \E k \in counts :
                /\ k <= Len(cs)
                /\ \A n \in 1 .. k :
                      LET m == MessagePool[SavedMessage(att, n)]
                      IN  cs[n].metadata = MetadataOf(m) /\ cs[n].body = BodyOf(m)
                /\ NestedBlocks(SubSeq(cs, k + 1, Len(cs)), f, i + 1, partial)

C18_ExtractorsTotal ==
    (Running /\ Top.pc = "doc_remove" /\ CurAtt(Top).data = "corrupt") =>
        LET docs == Top.lists[KindByExtension(CurAtt(Top))]
        IN  /\ <<AttPath(Top), "extract">> \notin hist.faults
            /\ docs # <<>>
            /\ docs[Len(docs)] = [filename |-> Filename(CurAtt(Top)), content |-> <<>>]

\* The filenames of the attachments of kind k with a payload that extracts.
RECURSIVE ExtractedNames(_, _)
ExtractedNames(atts, k) ==
    IF atts = <<>> THEN <<>>
    ELSE (IF KindByExtension(atts[1]) = k /\ atts[1].data = "valid"
          THEN <<Filename(atts[1])>> ELSE <<>>) \o ExtractedNames(Tail(atts), k)

\* C19: the kind of an attachment is the kind its extension names in any
\* case of the letters; an attachment of no known kind leaves no trace: the
\* documents of every message returned are those of the other attachments,
\* in order, and no fault is recorded for the skipped ones.
C19_SkipUnknown ==
    Assembling =>
        LET r == Result(Top)
        IN  /\ \A k \in DocKinds :
                  LET names == ExtractedNames(Top.atts, k)
                  IN  IF names = <<>> THEN k \notin DOMAIN r.attachments
                      ELSE /\ k \in DOMAIN r.attachments
                           /\ Len(r.attachments[k]) = Len(names)
                           /\ \A n \in DOMAIN names : r.attachments[k][n].filename = names[n]
            /\ \A i \in DOMAIN Top.atts :
                  KindByExtension(Top.atts[i]) = "skip" =>
                      \A fl \in hist.faults : fl[1] # Append(Top.path, i)

\* A message with a nameless attachment and "A.PDF" is about to be returned
\* with the one pdf document, and nothing failed.
C19_Witness ==
    /\ Assembling
    /\ Top.atts = <<Att("", "", "valid"), Att("A", ".PDF", "valid")>>
    /\ DOMAIN Result(Top).attachments = {"pdf"}
    /\ Len(Result(Top).attachments["pdf"]) = 1
    /\ Result(Top).attachments["pdf"][1].filename = <<"A", ".PDF">>
    /\ hist.faults = {}

\* The attachments of kind k whose payload the extractor reads, in order.
ExtractedOf(atts, k) ==
    SelectSeq(atts, LAMBDA a : KindByExtension(a) = k /\ a.data = "valid")

\* C25: in every message returned the bucket of a kind holds, in attachment
\* order, the filename and the extracted text of exactly the attachments of
\* that kind whose extraction did not raise; and a parse in which nothing
\* went wrong but extractions returns.
C25_BucketsOfExtracted ==
    /\ Assembling =>
          \A k \in DocKinds :
              LET bucket == IF k \in DOMAIN Result(Top).attachments
                            THEN Result(Top).attachments[k] ELSE <<>>
                  extracted == ExtractedOf(Top.atts, k)
              IN  /\ Len(bucket) = Len(extracted)
                  /\ \A n \in DOMAIN extracted :
                        /\ bucket[n].filename = <<extracted[n].stem, extracted[n].ext>>
                        /\ bucket[n].content = <<"text of", extracted[n].stem, extracted[n].ext>>
    /\ (Done /\ hist.faults # {} /\ \A fl \in hist.faults : fl[2] = "extract") =>
          outcome.status = "returned"

\* A message with a pdf that does not extract followed by a pdf that does is
\* about to be returned with the second pdf only.
C25_Witness ==
    /\ Assembling /\ Depth = 1
    /\ Top.atts = <<Att("a", ".pdf", "corrupt"), Att("a", ".pdf", "valid")>>
    /\ hist.faults = { << <<1>>, "extract" >> }
    /\ Result(Top).attachments =
          [pdf |-> << [filename |-> <<"a", ".pdf">>,
                       content |-> <<"text of", "a", ".pdf">>] >>]

\* The temporary resources that the invocations of a call are using.
HeldTemps(frames) ==
    { AttPath(frames[j]) : j \in { i \in DOMAIN frames : HoldsTemp(frames[i]) } }

\* What invocation f returns is what parse_msg returns for its container when
\* no other call runs: the metadata and the body of its message, in each
\* bucket the documents of its own attachments that extract, in order, and
\* one nested message per embedded container of its own that was parsed.
ReturnsAsAlone(f) ==
    LET r == Result(f)
    IN  /\ r.metadata = MetadataOf(MessagePool[f.msg])
        /\ r.body = BodyOf(MessagePool[f.msg])
        /\ \A k \in DocKinds :
              LET extracted == ExtractedOf(f.atts, k)
              IN  (IF k \in DOMAIN r.attachments THEN r.attachments[k] ELSE <<>>)
                      = [n \in DOMAIN extracted |->
                            [filename |-> <<extracted[n].stem, extracted[n].ext>>,
                             content |-> <<"text of", extracted[n].stem, extracted[n].ext>>]]
        /\ NestedBlocks(r.nested_emails, f, 1, TRUE)

\* C26: two top-level calls that run interleaved do not interfere: an
\* invocation of either returns what it returns when it runs alone; a
\* temporary resource that a call is using exists, the other call has not
\* removed it; and when both calls have ended without a fault, each has
\* removed what it created and nothing else.
C26_CallsIndependent ==
    /\ Assembling => ReturnsAsAlone(Top)
    /\ HeldTemps(stack) \cup HeldTemps(other.stack) \subseteq temps
    /\ HeldTemps(stack) \cap HeldTemps(other.stack) = {}
    /\ (Done /\ other.outcome.status \in {"returned", "raised"}
            /\ hist.faults = {} /\ other.hist.faults = {}) => temps = {}

\* The first call is about to remove the temporary file of its pdf while the
\* second call, suspended, is about to extract from its own.
C26_Witness ==
    /\ other.call = 2
    /\ Running /\ Depth = 1 /\ Top.pc = "doc_remove"
    /\ Len(other.stack) = 1 /\ other.stack[1].pc = "doc_extract"
    /\ temps = { <<1>>, <<0, 1>> }

\* C27: every container handle that parse_msg opened and has not closed yet
\* belongs to an invocation that has not ended, and each close closes one: when
\* an invocation has returned or let an exception through, its handle has
\* been closed once; when the call has ended every handle has.  When a
\* temporary directory is about to be removed, the handle of the nested
\* container that was parsed from it is closed.  A close that fails changes
\* nothing: the call returns.
C27_HandlesClosed ==
    /\ hist.opened - hist.closed =
          Cardinality({ j \in 1 .. Depth : stack[j].pc # "open" })
    /\ Done => hist.closed = hist.opened
    /\ (Running /\ Top.pc = "msg_rmtree") => hist.opened - hist.closed = Depth
    /\ (Done /\ hist.faults # {} /\ \A fl \in hist.faults : fl[2] = "close") =>
          outcome.status = "returned"

\* A container with one embedded container has been parsed; closing the
\* nested handle failed, both handles have been closed, and the call has
\* returned the nested message.
C27_Witness ==
    /\ outcome.status = "returned"
    /\ hist.faults = { << <<1, 0>>, "close" >> }
    /\ hist.opened = 2 /\ hist.closed = 2
    /\ Len(outcome.value.nested_emails) = 1

\* C28: an embedded container adds its nested messages all or none: when
\* its processing met a fault (saving it failed, or parsing one of the files
\* saved raised), none of its nested messages is in the message returned.
C28_NestedAllOrNone ==
    Assembling => NestedBlocks(Result(Top).nested_emails, Top, 1, FALSE)

\* The extensions of the filenames that the branch of a kind takes.
BucketExtensions(k) ==
    CASE k = "pdf"  -> {".pdf"}
      [] k = "docx" -> {".docx"}
      [] k = "pptx" -> {".pptx"}
      [] k = "xlsx" -> {".xlsx", ".xls"}

\* The documents of all buckets of result r, one after the other.
AllEntries(r) ==
    LET bucket(k) == IF k \in DOMAIN r.attachments THEN r.attachments[k] ELSE <<>>
    IN  bucket("pdf") \o bucket("docx") \o bucket("pptx") \o bucket("xlsx")

\* C30: an attachment goes to one kind at most.  In every message returned
\* the documents of all buckets are no more than the attachments with the
\* extension of a document kind; for every filename the documents with it are
\* no more than the attachments with it, so that no attachment is in two
\* buckets; every document's filename ends, in any case of the letters, with
\* an extension of its bucket, so that no embedded container is in a bucket;
\* and the nested messages are no more than the files saved from the
\* embedded containers.
C30_OneKindEach ==
    Assembling =>
        LET r == Result(Top)
            entries == AllEntries(r)
            withName(seq, name) == { n \in DOMAIN seq : seq[n] = name }
            names == [n \in DOMAIN entries |-> entries[n].filename]
            attNames == [i \in DOMAIN Top.atts |-> Filename(Top.atts[i])]
            containers == { i \in DOMAIN Top.atts : KindByExtension(Top.atts[i]) = "msg" }
            RECURSIVE Saved(_)
            Saved(S) == IF S = {} THEN 0
                        ELSE LET i == CHOOSE x \in S : TRUE
                             IN  Top.atts[i].files + Saved(S \ {i})
        IN  /\ Len(entries) <=
                  Cardinality({ i \in DOMAIN Top.atts :
                                  KindByExtension(Top.atts[i]) \in DocKinds })
            /\ \A n \in DOMAIN entries :
                  Cardinality(withName(names, names[n])) <=
                      Cardinality(withName(attNames, names[n]))
            /\ \A k \in DOMAIN r.attachments : \A n \in DOMAIN r.attachments[k] :
                  Lower(r.attachments[k][n].filename[2]) \in BucketExtensions(k)
            /\ Len(r.nested_emails) <= Saved(containers)

\* A message is about to be returned whose attachments were an Excel file
\* named ".xls" and an embedded container: one document, in the Excel bucket,
\* and one nested message.
C30_Witness ==
    /\ Assembling /\ Depth = 1
    /\ Top.atts = <<Att("d", ".xls", "valid"), Att("e", ".msg", "valid")>>
    /\ DOMAIN Result(Top).attachments = {"xlsx"}
    /\ Len(Result(Top).attachments["xlsx"]) = 1
    /\ Len(Result(Top).nested_emails) = 1

\* C20: the body of every message returned is the plain-text body when there
\* is one, else the markup body, else "", normalized and then split into the
\* messages of a thread.
C20_BodyPipeline ==
    Assembling =>
        LET m == MessagePool[Top.msg]
            chosen == IF m.body # None /\ m.body # Str(<<>>) THEN m.body.chars
                      ELSE IF m.htmlBody # None /\ m.htmlBody # Str(<<>>) THEN m.htmlBody.chars
                      ELSE <<>>
            split == SplitThread(format_email_body(chosen))
        IN  IF split.form = "thread"
            THEN Result(Top).body = [type |-> "list", items |-> split.parts]
            ELSE Result(Top).body = Str(split.text)

====
